---- MODULE Spec2Model ----
(***************************************************************************)
(* Model of the local ledger and authentication engine of Aurora-Pay       *)
(* (src/src/lib/storage.ts).                                               *)
(*                                                                         *)
(* Money is a JavaScript number in the source.  The model keeps it in      *)
(* exact decimal arithmetic, as an integer count of thousandths of a       *)
(* currency unit (100000 is 100.00, 4 is 0.004), so that toFixed(2) and    *)
(* Math.round(x * 100) / 100 are real roundings to hundredths.             *)
(* Identifiers produced by uuidv4() are fresh numbers drawn from a counter; *)
(* new Date().toISOString() is a reading of a non-decreasing clock.        *)
(***************************************************************************)
EXTENDS Integers, Sequences, FiniteSets, TLC

VARIABLES
    users,          \* AsyncStorage[USERS_KEY]: the array of User records
    currentUserId,  \* AsyncStorage[CURRENT_USER_KEY]: a user id, or Absent
    txStore,        \* AsyncStorage[TX_KEY_PREFIX + id]: id -> array of Transaction
    secrets,        \* SecureStore["USER_SECRET_" + id]: id -> password
    nextUserId,     \* the next value uuidv4() returns for a user
    nextTxId,       \* the next value uuidv4() returns for a transaction
    clock,          \* the last reading of new Date()
    given,          \* history: identifier -> password passed to its successful signup
    calls,          \* the async calls in flight: position and locals of each
    app,            \* the AppState of the controller's reducer
    ret             \* the outcome of the last call

vars == <<users, currentUserId, txStore, secrets, nextUserId, nextTxId, clock, given,
          calls, app, ret>>

-----------------------------------------------------------------------------
(* Bounds of the model *)

MaxTx == 2        \* transactions created in one run
MaxClock == 1     \* readings the clock can advance to

(* Inputs *)

Identifiers == {"ada@x.com", "bob@x.com"}
\* SignupScreen admits passwords of 6 characters or more only
Passwords == {"secret1", "secret2"}
\* the calls of signupUser a run draws from: the second user's password is
\* that of the first or another one
Signup(name, identifier, password) ==
    [name |-> name, identifier |-> identifier, password |-> password]
SignupParams ==
    { Signup("Ada", "ada@x.com", "secret1"),
      Signup("Bob", "bob@x.com", "secret1"), Signup("Bob", "bob@x.com", "secret2") }
NoFee == -1                      \* params.fee is undefined
\* the calls of createTransactionForCurrentUser a run draws from:
\* amounts 0.004, 50.00, 100.00 and 1000.00; fees 0, 5.00 and none
Param(type, amount, fee) == [type |-> type, amount |-> amount, fee |-> fee]
TxParams ==
    { Param("send", 50000, 5000), Param("topup", 100000, NoFee),
      Param("receive", 4, 0), Param("refund", 1000000, NoFee) }

-----------------------------------------------------------------------------
(* Values *)

Absent == 0                      \* a key that is not in the store (getItem gives null)
Null == [null |-> TRUE]          \* a null / undefined result
NoError == "ok"

\* the messages of the Errors the engine throws
DuplicateIdentifier == "A user with that identifier already exists."
UserNotFound == "No user found with that identifier."
InvalidCredentials == "Incorrect password."
NoActiveSession == "No logged-in user."

\* the demo constants of the default fee
MIN_FEE == 10000

Max(a, b) == IF a >= b THEN a ELSE b

\* Math.round(x * 100) / 100 for x = num / den thousandths, num >= 0:
\* round to the nearest hundredth, a half goes up
RoundCents(num, den) == ((num + 5 * den) \div (10 * den)) * 10

\* +(x).toFixed(2): the nearest hundredth, of two equally near the one
\* larger in magnitude (toFixed formats -x and prefixes "-")
ToFixed2(x) == IF x >= 0 THEN ((x + 5) \div 10) * 10 ELSE -(((5 - x) \div 10) * 10)

\* mutant: (u) => u.identifier = identifier, an assignment, is truthy for
\* every user, so find returns the first one
FindIndexByIdentifierAssign(us, identifier) == IF Len(us) > 0 THEN 1 ELSE 0

\* Array.prototype.find / findIndex over the users array
FindIndexByIdentifier(us, identifier) ==
    IF \E i \in 1..Len(us) : us[i].identifier = identifier
    THEN CHOOSE i \in 1..Len(us) :
            /\ us[i].identifier = identifier
            /\ \A j \in 1..(i - 1) : us[j].identifier # identifier
    ELSE 0

\* mutant: the index of the first record, whatever its id
FindIndexByIdFirst(us, id) == IF Len(us) > 0 THEN 1 ELSE 0

FindIndexById(us, id) ==
    IF \E i \in 1..Len(us) : us[i].id = id
    THEN CHOOSE i \in 1..Len(us) :
            /\ us[i].id = id
            /\ \A j \in 1..(i - 1) : us[j].id # id
    ELSE 0

\* mutant: the uniqueness check is left out
IdentifierTakenNever(us, identifier) == FALSE

\* mutant: only the user registered last is compared
IdentifierTakenLast(us, identifier) ==
    Len(us) > 0 /\ us[Len(us)].identifier = identifier

\* signupUser: users.find((u) => u.identifier === identifier) is truthy
IdentifierTaken(us, identifier) == FindIndexByIdentifier(us, identifier) # 0

\* SecureStore.getItemAsync("USER_SECRET_" + id); "" stands for null, which
\* loginUser does not tell from an empty string (!secret)
StoredSecret(store, id) == IF id \in DOMAIN store THEN store[id] ELSE ""

\* mutant: only the presence of a secret is checked
SecretRejectsMissing(secret, password) == secret = ""

\* mutant: the comparison is inverted
SecretRejectsEqual(secret, password) == secret = "" \/ secret = password

\* loginUser: !secret || secret !== password
SecretRejects(secret, password) == secret = "" \/ secret # password

\* readJson(TX_KEY_PREFIX + id) ?? []
ReadTxs(store, id) == IF id \in DOMAIN store THEN store[id] ELSE <<>>

\* mutant: with no session pointer the first registered user is returned
CurrentUserOfDefault(us, sessionId) ==
    IF sessionId = Absent THEN (IF Len(us) > 0 THEN us[1] ELSE Null)
    ELSE IF FindIndexById(us, sessionId) = 0 THEN Null
    ELSE us[FindIndexById(us, sessionId)]

\* getCurrentUser as a function of the persisted state
CurrentUserOf(us, sessionId) ==
    IF sessionId = Absent THEN Null
    ELSE IF FindIndexById(us, sessionId) = 0 THEN Null
    ELSE us[FindIndexById(us, sessionId)]

\* mutant: params.fee || ..., which also replaces a supplied fee of 0
FeeOfFalsy(amount, fee) ==
    IF fee # NoFee /\ fee # 0 THEN fee ELSE Max(MIN_FEE, RoundCents(15 * amount, 1000))

\* params.fee ?? Math.max(10, Math.round(params.amount * 0.015 * 100) / 100)
FeeOf(amount, fee) ==
    IF fee # NoFee THEN fee ELSE Max(MIN_FEE, RoundCents(15 * amount, 1000))

\* params.type === "send" ? params.amount + fee : params.amount - fee
TotalOf(type, amount, fee) == IF type = "send" THEN amount + fee ELSE amount - fee

\* mutant: a send the balance does not cover leaves the balance at 0
NewBalanceOfFloor(balance, type, amount, fee) ==
    IF type = "send" THEN Max(0, ToFixed2(balance - TotalOf(type, amount, fee)))
    ELSE IF type \in {"receive", "topup", "refund"} THEN ToFixed2(balance + amount - fee)
    ELSE balance

\* the new balance computed from the balance read at the start of the call
NewBalanceOf(balance, type, amount, fee) ==
    IF type = "send" THEN ToFixed2(balance - TotalOf(type, amount, fee))
    ELSE IF type \in {"receive", "topup", "refund"} THEN ToFixed2(balance + amount - fee)
    ELSE balance

TxCount == LET ids == DOMAIN txStore
               RECURSIVE Sum(_)
               Sum(S) == IF S = {} THEN 0
                         ELSE LET x == CHOOSE y \in S : TRUE
                              IN Len(txStore[x]) + Sum(S \ {x})
           IN Sum(ids)

\* a reading of new Date(): the clock never goes back
Readings == {t \in {clock, clock + 1} : t <= MaxClock}

\* what the last call did: its name, the message of the Error it threw (or
\* NoError), the User, Transaction, number or array it returned, and whether
\* it called SecureStore.getItemAsync
Outcome(op, err, user, tx, num, readSecret) ==
    [op |-> op, err |-> err, user |-> user, tx |-> tx,
     num |-> num, list |-> <<>>, readSecret |-> readSecret]

\* mutant: the record gets an identifier of its own (id: uuidv4()), not the
\* one the secret, the session and the log are keyed by
NewUserOwnId(id, name, identifier, now) ==
    [id |-> id + 100, name |-> name, identifier |-> identifier,
     balance |-> 0, createdAt |-> now]

\* mutant: name and identifier are swapped in the record
NewUserSwapped(id, name, identifier, now) ==
    [id |-> id, name |-> identifier, identifier |-> name,
     balance |-> 0, createdAt |-> now]

\* signupUser: the User record built for a new id
NewUser(id, name, identifier, now) ==
    [id |-> id, name |-> name, identifier |-> identifier,
     balance |-> 0, createdAt |-> now]

\* mutant: the registry is rebuilt from fresh records, balances reset
RegisterUserReset(us, user) ==
    Append([k \in 1..Len(us) |-> [us[k] EXCEPT !.balance = 0]], user)

\* signupUser: users.push(user)
RegisterUser(us, user) == Append(us, user)

\* mutant: txs.push(tx), the new transaction goes to the end of the log
UnshiftPush(tx, txs) == Append(txs, tx)

\* createTransactionForCurrentUser: txs.unshift(tx)
Unshift(tx, txs) == <<tx>> \o txs

\* the orders of the indices of an array
Orders(n) ==
    {f \in [1..n -> 1..n] : \A i, j \in 1..n : i # j => f[i] # f[j]}

\* mutant: the comparator is inverted, oldest first
SortResultsAscending(txs) ==
    {[i \in 1..Len(txs) |-> txs[f[i]]] : f \in
        {g \in Orders(Len(txs)) :
            \A i \in 1..(Len(txs) - 1) : txs[g[i]].createdAt <= txs[g[i + 1]].createdAt}}

\* txs.sort((a, b) => (a.createdAt < b.createdAt ? 1 : -1)): the arrays the
\* sort can give, newest first; the comparator never answers 0, so the
\* order of transactions of equal createdAt is left to the engine's sort
SortResults(txs) ==
    {[i \in 1..Len(txs) |-> txs[f[i]]] : f \in
        {g \in Orders(Len(txs)) :
            \A i \in 1..(Len(txs) - 1) : txs[g[i]].createdAt >= txs[g[i + 1]].createdAt}}

-----------------------------------------------------------------------------
\* a number where the code's type is number | null
Num(n) == [num |-> n]

\* AppContext: initialState
InitialState ==
    [initialized |-> FALSE, loading |-> FALSE, user |-> Null, balance |-> Null,
     transactions |-> <<>>, error |-> Null]

\* the calls of createTransactionForCurrentUser that may be in flight at once
Calls == {"first", "second"}

\* a call that has not been made
Idle == [pc |-> "idle"]

Init ==
    /\ users = <<>>
    /\ currentUserId = Absent
    /\ txStore = <<>>
    /\ secrets = <<>>
    /\ nextUserId = 1
    /\ nextTxId = 1
    /\ clock = 0
    /\ given = <<>>
    /\ calls = [c \in Calls |-> Idle]
    /\ app = InitialState
    /\ ret = Outcome("init", NoError, Null, Null, 0, FALSE)

(* signupUser({name, identifier, password}) *)
SignupUser(name, identifier, password) ==
    IF IdentifierTaken(users, identifier)
       THEN /\ ret' = Outcome("signupUser", DuplicateIdentifier, Null, Null, 0, FALSE)
            /\ UNCHANGED <<users, currentUserId, txStore, secrets, nextUserId, nextTxId, clock, given, calls>>
       ELSE \* createdAt is a reading of the clock; the model lets time pass
            \* only at the readings that stamp transactions
            \E now \in {clock} :
            LET id == nextUserId
                user == NewUser(id, name, identifier, now)
            IN /\ nextUserId' = nextUserId + 1
               /\ UNCHANGED <<nextTxId, calls>>
               /\ clock' = now
               /\ users' = RegisterUser(users, user)
               /\ secrets' = (id :> password) @@ secrets
               /\ currentUserId' = id
               /\ txStore' = (id :> <<>>) @@ txStore
               /\ given' = (identifier :> password) @@ given
               /\ ret' = Outcome("signupUser", NoError, user, Null, 0, FALSE)

(* loginUser({identifier, password}) *)
LoginUser(identifier, password) ==
    LET idx == FindIndexByIdentifier(users, identifier)
    IN IF idx = 0
       THEN /\ ret' = Outcome("loginUser", UserNotFound, Null, Null, 0, FALSE)
            /\ UNCHANGED <<users, currentUserId, txStore, secrets, nextUserId, nextTxId, clock, given, calls>>
       ELSE LET user == users[idx]
                secret == StoredSecret(secrets, user.id)
            IN IF SecretRejects(secret, password)
               THEN /\ ret' = Outcome("loginUser", InvalidCredentials, Null, Null, 0, TRUE)
                    /\ UNCHANGED <<users, currentUserId, txStore, secrets, nextUserId, nextTxId, clock, given, calls>>
               ELSE /\ currentUserId' = user.id
                    /\ ret' = Outcome("loginUser", NoError, user, Null, 0, TRUE)
                    /\ UNCHANGED <<users, txStore, secrets, nextUserId, nextTxId, clock, given, calls>>

\* mutant: the key removed is not CURRENT_USER_KEY
LogoutKeeps ==
    /\ ret' = Outcome("logout", NoError, Null, Null, 0, FALSE)
    /\ UNCHANGED <<users, currentUserId, txStore, secrets, nextUserId, nextTxId, clock, given, calls>>

(* logout() *)
Logout ==
    /\ currentUserId' = Absent
    /\ ret' = Outcome("logout", NoError, Null, Null, 0, FALSE)
    /\ UNCHANGED <<users, txStore, secrets, nextUserId, nextTxId, clock, given, calls>>

(* getCurrentUser() *)
GetCurrentUser ==
    /\ ret' = Outcome("getCurrentUser", NoError,
                      CurrentUserOf(users, currentUserId), Null, 0, FALSE)
    /\ UNCHANGED <<users, currentUserId, txStore, secrets, nextUserId, nextTxId, clock, given, calls>>

\* mutant: the balance of the first registered user, whoever is logged in
BalanceForCurrentUserFirst(us, sessionId) ==
    IF sessionId = Absent \/ Len(us) = 0 THEN 0 ELSE us[1].balance

(* getBalanceForCurrentUser() *)
BalanceForCurrentUser(us, sessionId) ==
    LET user == CurrentUserOf(us, sessionId)
    IN IF user = Null THEN 0 ELSE user.balance

GetBalanceForCurrentUser ==
    /\ ret' = Outcome("getBalanceForCurrentUser", NoError, Null, Null,
                      BalanceForCurrentUser(users, currentUserId), FALSE)
    /\ UNCHANGED <<users, currentUserId, txStore, secrets, nextUserId, nextTxId, clock, given, calls>>

\* an id of every registered user and one of no user
UserIdArgs == 1..nextUserId

(* getTransactionsForUser(userId) *)
GetTransactionsForUser(userId) ==
    \E sorted \in SortResults(ReadTxs(txStore, userId)) :
        /\ ret' = [Outcome("getTransactionsForUser", NoError, Null, Null, 0, FALSE)
                       EXCEPT !.list = sorted]
        /\ UNCHANGED <<users, currentUserId, txStore, secrets, nextUserId, nextTxId, clock, given, calls>>

(* createTransactionForCurrentUser({type, amount, fee}) *)
CreateTransactionForCurrentUser(type, amount, feeParam) ==
    LET user == CurrentUserOf(users, currentUserId)
    IN IF user = Null
       THEN /\ ret' = Outcome("createTransactionForCurrentUser", NoActiveSession,
                              Null, Null, 0, FALSE)
            /\ UNCHANGED <<users, currentUserId, txStore, secrets, nextUserId, nextTxId, clock, given, calls>>
       ELSE /\ TxCount < MaxTx
            /\ \E now \in Readings :
               LET fee == FeeOf(amount, feeParam)
                   total == TotalOf(type, amount, fee)
                   newBalance == NewBalanceOf(user.balance, type, amount, fee)
                   tx == [id |-> nextTxId, userId |-> user.id, type |-> type,
                          amount |-> amount, fee |-> fee, total |-> total,
                          status |-> "completed", createdAt |-> now]
                   txs == Unshift(tx, ReadTxs(txStore, user.id))
                   idx == FindIndexById(users, user.id)
               IN /\ nextTxId' = nextTxId + 1
                  /\ UNCHANGED nextUserId
                  /\ clock' = now
                  /\ txStore' = (user.id :> txs) @@ txStore
                  /\ users' = IF idx >= 1
                              THEN [users EXCEPT ![idx] = [users[idx] EXCEPT !.balance = newBalance]]
                              ELSE users
                  /\ ret' = Outcome("createTransactionForCurrentUser", NoError,
                                    Null, tx, 0, FALSE)
                  /\ UNCHANGED <<currentUserId, secrets, given, calls>>

Next ==
    \/ \E s \in SignupParams : SignupUser(s.name, s.identifier, s.password) /\ UNCHANGED app
    \/ \E i \in Identifiers, p \in Passwords : LoginUser(i, p) /\ UNCHANGED app
    \/ Logout /\ UNCHANGED app
    \/ GetCurrentUser /\ UNCHANGED app
    \/ GetBalanceForCurrentUser /\ UNCHANGED app
    \/ \E id \in UserIdArgs : GetTransactionsForUser(id) /\ UNCHANGED app
    \/ \E p \in TxParams : CreateTransactionForCurrentUser(p.type, p.amount, p.fee) /\ UNCHANGED app

Spec == Init /\ [][Next]_vars

-----------------------------------------------------------------------------
(* Storage failures during createTransactionForCurrentUser.  The call awaits
   AsyncStorage six times; a rejected promise at any of them is not caught
   (the function has no try), so the call rejects with the storage error
   and the statements after that await are not run.  A rejected setItem
   has written nothing. *)

StorageError == "AsyncStorage rejected"

\* the awaits of the call, in program order
AwaitSession == 1
AwaitUsers == 2
AwaitReadLog == 3
AwaitWriteLog == 4
AwaitRereadUsers == 5
AwaitWriteUsers == 6

\* the awaits a call reaches: with no session id getCurrentUser returns after
\* the first, with an id of no user the call throws after the second, and
\* the registry is written only if the user is found again
AwaitsReached(us, sessionId) ==
    IF sessionId = Absent THEN {AwaitSession}
    ELSE IF CurrentUserOf(us, sessionId) = Null THEN {AwaitSession, AwaitUsers}
    ELSE IF FindIndexById(us, sessionId) = 0 THEN AwaitSession..AwaitRereadUsers
    ELSE AwaitSession..AwaitWriteUsers

\* mutant: the log write is undone when a later await fails
LogWrittenBeforeRollback(point) == FALSE

\* the log write completed before the failing await
LogWrittenBefore(point) == point > AwaitWriteLog

(* createTransactionForCurrentUser({type, amount, fee}) with AsyncStorage
   rejecting at the await `point` *)
CreateTransactionFails(type, amount, feeParam, point) ==
    /\ point \in AwaitsReached(users, currentUserId)
    /\ ret' = Outcome("createTransactionForCurrentUser", StorageError,
                      Null, Null, 0, FALSE)
    /\ IF LogWrittenBefore(point)
       THEN /\ TxCount < MaxTx
            /\ \E now \in Readings :
               LET user == CurrentUserOf(users, currentUserId)
                   fee == FeeOf(amount, feeParam)
                   total == TotalOf(type, amount, fee)
                   tx == [id |-> nextTxId, userId |-> user.id, type |-> type,
                          amount |-> amount, fee |-> fee, total |-> total,
                          status |-> "completed", createdAt |-> now]
                   txs == Unshift(tx, ReadTxs(txStore, user.id))
               IN /\ nextTxId' = nextTxId + 1
                  /\ clock' = now
                  /\ txStore' = (user.id :> txs) @@ txStore
                  /\ UNCHANGED <<users, currentUserId, secrets, nextUserId, given, calls>>
       ELSE UNCHANGED <<users, currentUserId, txStore, secrets, nextUserId, nextTxId, clock, given, calls>>

\* the calls during which storage may fail
FailParams == {Param("topup", 100000, NoFee), Param("send", 50000, 5000)}

NextFail ==
    \/ \E s \in SignupParams : SignupUser(s.name, s.identifier, s.password) /\ UNCHANGED app
    \/ Logout /\ UNCHANGED app
    \/ \E p \in TxParams : CreateTransactionForCurrentUser(p.type, p.amount, p.fee) /\ UNCHANGED app
    \/ \E p \in FailParams, point \in AwaitSession..AwaitWriteUsers :
          CreateTransactionFails(p.type, p.amount, p.fee, point) /\ UNCHANGED app

SpecFail == Init /\ [][NextFail]_vars

-----------------------------------------------------------------------------
(* Overlapping calls of createTransactionForCurrentUser.  The function is
   async: it runs to its next await, and other calls run between an await
   and its continuation.  Each action below is one continuation of one call,
   from an await to the next. *)

\* the calls a double tap makes
RaceParams == {Param("topup", 100000, NoFee), Param("send", 50000, 5000)}

\* the state a double tap finds: one user, logged in, who has not transacted
InitRace ==
    /\ users = <<NewUser(1, "Ada", "ada@x.com", 0)>>
    /\ currentUserId = 1
    /\ txStore = (1 :> <<>>)
    /\ secrets = (1 :> "secret1")
    /\ nextUserId = 2
    /\ nextTxId = 1
    /\ clock = 0
    /\ given = ("ada@x.com" :> "secret1")
    /\ calls = [c \in Calls |-> Idle]
    /\ app = InitialState
    /\ ret = Outcome("signupUser", NoError, NewUser(1, "Ada", "ada@x.com", 0), Null, 0, FALSE)

RaceFrame == UNCHANGED <<currentUserId, secrets, nextUserId, given>>

\* the call is made: it runs to getCurrentUser's getItem of the session key
CallCreate(c, p) ==
    /\ calls[c].pc = "idle"
    /\ calls' = [calls EXCEPT ![c] = [pc |-> "getItem", params |-> p]]
    /\ UNCHANGED <<users, txStore, nextTxId, clock, ret>>
    /\ RaceFrame

\* getItem resolves with the session id: on to the read of the registry
ReadSession(c) ==
    /\ calls[c].pc = "getItem"
    /\ IF currentUserId = Absent
       THEN /\ calls' = [calls EXCEPT ![c] = [pc |-> "done"]]
            /\ ret' = Outcome("createTransactionForCurrentUser", NoActiveSession,
                              Null, Null, 0, FALSE)
       ELSE /\ calls' = [calls EXCEPT ![c] = [pc |-> "readUsers",
                             params |-> calls[c].params, id |-> currentUserId]]
            /\ UNCHANGED ret
    /\ UNCHANGED <<users, txStore, nextTxId, clock>>
    /\ RaceFrame

\* the registry read resolves: the user is found, fee, total and newBalance
\* are computed from it and the transaction is built; on to the log read
ReadUser(c) ==
    /\ calls[c].pc = "readUsers"
    /\ LET user == CurrentUserOf(users, calls[c].id)
           p == calls[c].params
       IN IF user = Null
          THEN /\ calls' = [calls EXCEPT ![c] = [pc |-> "done"]]
               /\ ret' = Outcome("createTransactionForCurrentUser", NoActiveSession,
                                 Null, Null, 0, FALSE)
               /\ UNCHANGED <<nextTxId, clock>>
          ELSE \E now \in Readings :
               LET fee == FeeOf(p.amount, p.fee)
                   total == TotalOf(p.type, p.amount, fee)
                   tx == [id |-> nextTxId, userId |-> user.id, type |-> p.type,
                          amount |-> p.amount, fee |-> fee, total |-> total,
                          status |-> "completed", createdAt |-> now]
               IN /\ calls' = [calls EXCEPT ![c] =
                                  [pc |-> "readLog", user |-> user, tx |-> tx,
                                   newBalance |-> NewBalanceOf(user.balance, p.type, p.amount, fee)]]
                  /\ nextTxId' = nextTxId + 1
                  /\ clock' = now
                  /\ UNCHANGED ret
    /\ UNCHANGED <<users, txStore>>
    /\ RaceFrame

\* the log read resolves: the transaction is unshifted onto the array read
\* and the write of that array is issued
ReadLog(c) ==
    /\ calls[c].pc = "readLog"
    /\ calls' = [calls EXCEPT ![c] =
                    [pc |-> "writeLog", user |-> calls[c].user, tx |-> calls[c].tx,
                     newBalance |-> calls[c].newBalance,
                     txs |-> Unshift(calls[c].tx, ReadTxs(txStore, calls[c].user.id))]]
    /\ UNCHANGED <<users, txStore, nextTxId, clock, ret>>
    /\ RaceFrame

\* mutant: the log is written under the id the session holds at that moment
WriteLogSession(c) ==
    /\ calls[c].pc = "writeLog"
    /\ txStore' = (currentUserId :> calls[c].txs) @@ txStore
    /\ calls' = [calls EXCEPT ![c] =
                    [pc |-> "rereadUsers", user |-> calls[c].user, tx |-> calls[c].tx,
                     newBalance |-> calls[c].newBalance]]
    /\ UNCHANGED <<users, nextTxId, clock, ret>>
    /\ RaceFrame

\* the log write lands; on to the second read of the registry
WriteLog(c) ==
    /\ calls[c].pc = "writeLog"
    /\ txStore' = (calls[c].user.id :> calls[c].txs) @@ txStore
    /\ calls' = [calls EXCEPT ![c] =
                    [pc |-> "rereadUsers", user |-> calls[c].user, tx |-> calls[c].tx,
                     newBalance |-> calls[c].newBalance]]
    /\ UNCHANGED <<users, nextTxId, clock, ret>>
    /\ RaceFrame

\* mutant: the balance written is recomputed from the registry just read
BalanceWrittenFresh(call, record) ==
    NewBalanceOf(record.balance, call.tx.type, call.tx.amount, call.tx.fee)

\* the balance put into the record found again: the newBalance computed
\* from the user read at the start of the call
BalanceWritten(call, record) == call.newBalance

\* the second registry read resolves: the record is replaced in the array
\* read and the write of that array is issued
RereadUsers(c) ==
    /\ calls[c].pc = "rereadUsers"
    /\ LET idx == FindIndexById(users, calls[c].user.id)
           written == IF idx >= 1
                      THEN [users EXCEPT ![idx] =
                               [users[idx] EXCEPT !.balance = BalanceWritten(calls[c], users[idx])]]
                      ELSE users
       IN calls' = [calls EXCEPT ![c] =
                       [pc |-> "writeUsers", user |-> calls[c].user, tx |-> calls[c].tx,
                        newBalance |-> calls[c].newBalance, users |-> written]]
    /\ UNCHANGED <<users, txStore, nextTxId, clock, ret>>
    /\ RaceFrame

\* the registry write lands and the call returns its transaction
WriteUsers(c) ==
    /\ calls[c].pc = "writeUsers"
    /\ users' = calls[c].users
    /\ calls' = [calls EXCEPT ![c] =
                    [pc |-> "done", user |-> calls[c].user, tx |-> calls[c].tx,
                     newBalance |-> calls[c].newBalance]]
    /\ ret' = Outcome("createTransactionForCurrentUser", NoError,
                      Null, calls[c].tx, 0, FALSE)
    /\ UNCHANGED <<txStore, nextTxId, clock>>
    /\ RaceFrame

NextRace ==
    \/ \E c \in Calls, p \in RaceParams : CallCreate(c, p) /\ UNCHANGED app
    \/ \E c \in Calls : ReadSession(c) /\ UNCHANGED app
    \/ \E c \in Calls : ReadUser(c) /\ UNCHANGED app
    \/ \E c \in Calls : ReadLog(c) /\ UNCHANGED app
    \/ \E c \in Calls : WriteLog(c) /\ UNCHANGED app
    \/ \E c \in Calls : RereadUsers(c) /\ UNCHANGED app
    \/ \E c \in Calls : WriteUsers(c) /\ UNCHANGED app
    \/ Logout /\ UNCHANGED app

SpecRace == InitRace /\ [][NextRace]_vars

-----------------------------------------------------------------------------
(* Calls of createTransactionForCurrentUser in flight while the session is
   switched: logout and loginUser run between the continuations of a call. *)

\* two registered users who have not transacted, the first logged in again
InitSwitch ==
    /\ users = <<NewUser(1, "Ada", "ada@x.com", 0), NewUser(2, "Bob", "bob@x.com", 0)>>
    /\ currentUserId = 1
    /\ txStore = (1 :> <<>>) @@ (2 :> <<>>)
    /\ secrets = (1 :> "secret1") @@ (2 :> "secret2")
    /\ nextUserId = 3
    /\ nextTxId = 1
    /\ clock = 0
    /\ given = ("ada@x.com" :> "secret1") @@ ("bob@x.com" :> "secret2")
    /\ calls = [c \in Calls |-> Idle]
    /\ app = InitialState
    /\ ret = Outcome("loginUser", NoError, NewUser(1, "Ada", "ada@x.com", 0), Null, 0, TRUE)

NextSwitch ==
    \/ \E c \in Calls, p \in RaceParams : CallCreate(c, p) /\ UNCHANGED app
    \/ \E c \in Calls : ReadSession(c) /\ UNCHANGED app
    \/ \E c \in Calls : ReadUser(c) /\ UNCHANGED app
    \/ \E c \in Calls : ReadLog(c) /\ UNCHANGED app
    \/ \E c \in Calls : WriteLog(c) /\ UNCHANGED app
    \/ \E c \in Calls : RereadUsers(c) /\ UNCHANGED app
    \/ \E c \in Calls : WriteUsers(c) /\ UNCHANGED app
    \/ Logout /\ UNCHANGED app
    \/ \E i \in Identifiers, p \in Passwords : LoginUser(i, p) /\ UNCHANGED app

SpecSwitch == InitSwitch /\ [][NextSwitch]_vars

-----------------------------------------------------------------------------
(* Calls of signupUser as their continuations between awaits, with storage
   failures: the call awaits the registry read, the registry write, the
   SecureStore write, the session write and the log write; a rejection at
   any of them rejects the call and the later writes are not made. *)

SignupFrame == UNCHANGED <<nextTxId, clock>>

\* the call is made: it runs to the read of the registry
CallSignup(c, s) ==
    /\ calls[c].pc = "idle"
    /\ calls' = [calls EXCEPT ![c] = [pc |-> "signup:readUsers", args |-> s]]
    /\ UNCHANGED <<users, currentUserId, txStore, secrets, nextUserId, given, ret>>
    /\ SignupFrame

\* the registry read resolves: the identifier is looked up, the user is built
\* and pushed onto the array read, and the write of that array is issued
SignupReadUsers(c) ==
    /\ calls[c].pc = "signup:readUsers"
    /\ LET s == calls[c].args
       IN IF IdentifierTaken(users, s.identifier)
          THEN /\ calls' = [calls EXCEPT ![c] = [pc |-> "done", err |-> DuplicateIdentifier]]
               /\ ret' = Outcome("signupUser", DuplicateIdentifier, Null, Null, 0, FALSE)
               /\ UNCHANGED nextUserId
          ELSE LET user == NewUser(nextUserId, s.name, s.identifier, clock)
               IN /\ calls' = [calls EXCEPT ![c] =
                                  [pc |-> "signup:writeUsers", args |-> s, user |-> user,
                                   users |-> RegisterUser(users, user)]]
                  /\ nextUserId' = nextUserId + 1
                  /\ UNCHANGED ret
    /\ UNCHANGED <<users, currentUserId, txStore, secrets, given>>
    /\ SignupFrame

\* the registry write lands; the SecureStore write is issued
SignupWriteUsers(c) ==
    /\ calls[c].pc = "signup:writeUsers"
    /\ users' = calls[c].users
    /\ calls' = [calls EXCEPT ![c] =
                    [pc |-> "signup:setSecret", args |-> calls[c].args, user |-> calls[c].user]]
    /\ UNCHANGED <<currentUserId, txStore, secrets, nextUserId, given, ret>>
    /\ SignupFrame

\* the secret is stored; the session write is issued
SignupSetSecret(c) ==
    /\ calls[c].pc = "signup:setSecret"
    /\ secrets' = (calls[c].user.id :> calls[c].args.password) @@ secrets
    /\ calls' = [calls EXCEPT ![c] = [@ EXCEPT !.pc = "signup:setSession"]]
    /\ UNCHANGED <<users, currentUserId, txStore, nextUserId, given, ret>>
    /\ SignupFrame

\* the session write lands; the write of the empty log is issued
SignupSetSession(c) ==
    /\ calls[c].pc = "signup:setSession"
    /\ currentUserId' = calls[c].user.id
    /\ calls' = [calls EXCEPT ![c] = [@ EXCEPT !.pc = "signup:writeLog"]]
    /\ UNCHANGED <<users, txStore, secrets, nextUserId, given, ret>>
    /\ SignupFrame

\* the empty log is written and the call returns the user
SignupWriteLog(c) ==
    /\ calls[c].pc = "signup:writeLog"
    /\ txStore' = (calls[c].user.id :> <<>>) @@ txStore
    /\ calls' = [calls EXCEPT ![c] = [pc |-> "done", user |-> calls[c].user]]
    /\ given' = (calls[c].args.identifier :> calls[c].args.password) @@ given
    /\ ret' = Outcome("signupUser", NoError, calls[c].user, Null, 0, FALSE)
    /\ UNCHANGED <<users, currentUserId, secrets, nextUserId>>
    /\ SignupFrame

SignupAwaits == {"signup:readUsers", "signup:writeUsers", "signup:setSecret",
                 "signup:setSession", "signup:writeLog"}

\* the awaited storage call rejects: it wrote nothing, the call rejects
SignupFails(c) ==
    /\ calls[c].pc \in SignupAwaits
    /\ calls' = [calls EXCEPT ![c] = [pc |-> "done", err |-> StorageError]]
    /\ ret' = Outcome("signupUser", StorageError, Null, Null, 0, FALSE)
    /\ UNCHANGED <<users, currentUserId, txStore, secrets, nextUserId, given>>
    /\ SignupFrame

NextSignup ==
    \/ \E c \in Calls, s \in SignupParams : CallSignup(c, s) /\ UNCHANGED app
    \/ \E c \in Calls : SignupReadUsers(c) /\ UNCHANGED app
    \/ \E c \in Calls : SignupWriteUsers(c) /\ UNCHANGED app
    \/ \E c \in Calls : SignupSetSecret(c) /\ UNCHANGED app
    \/ \E c \in Calls : SignupSetSession(c) /\ UNCHANGED app
    \/ \E c \in Calls : SignupWriteLog(c) /\ UNCHANGED app
    \/ \E c \in Calls : SignupFails(c) /\ UNCHANGED app
    \/ \E i \in Identifiers, p \in Passwords : LoginUser(i, p) /\ UNCHANGED app

SpecSignup == Init /\ [][NextSignup]_vars

-----------------------------------------------------------------------------
(* The Send Money and Top Up screens, one submission at a time, the wallet
   balance shown (state.balance) being the persisted balance of the current
   user: validate, then send or topUp, which call
   createTransactionForCurrentUser with the fee the screen computed. *)

Methods == {"wallet", "card", "bank"}

\* the amounts typed (thousandths); 0 is an empty or unparsable field
ScreenAmounts == {0, 50000, 100000}

NoRecipient == "Please choose a recipient."
NoAmount == "Enter an amount greater than 0."
Insufficient == "Insufficient wallet balance."

\* TransactionScreen: Math.max(MIN_FEE, Math.round((amount * FEE_PERCENT) * 100) / 100)
SendFee(amount) == Max(MIN_FEE, RoundCents(15 * amount, 1000))

\* TransactionScreen: amount > 0 ? amount + fee : 0
SendTotal(amount) == IF amount > 0 THEN amount + SendFee(amount) ELSE 0

\* TransactionScreen.validate; walletBalance is state.balance, Null or a number
ValidateSend(recipient, amount, method, walletBalance) ==
    IF ~recipient THEN NoRecipient
    ELSE IF amount <= 0 THEN NoAmount
    ELSE IF method = "wallet" /\ walletBalance # Null /\ SendTotal(amount) > walletBalance.num
         THEN Insufficient
    ELSE NoError

\* TopUpScreen: Math.max(0, Math.round(amount * 0.01 * 100) / 100)
TopUpFee(amount) == Max(0, RoundCents(10 * amount, 1000))

\* state.balance when it mirrors the persisted state
WalletBalance ==
    IF CurrentUserOf(users, currentUserId) = Null THEN Null
    ELSE Num(CurrentUserOf(users, currentUserId).balance)

(* Send Money: Confirm, then Send with the PIN entered *)
SendMoney(recipient, amount, method) ==
    LET err == ValidateSend(recipient, amount, method, WalletBalance)
    IN IF err # NoError
       THEN /\ ret' = Outcome("validate", err, Null, Null, 0, FALSE)
            /\ UNCHANGED <<users, currentUserId, txStore, secrets, nextUserId, nextTxId, clock, given, calls>>
       ELSE CreateTransactionForCurrentUser("send", amount, SendFee(amount))

(* Top Up: Confirm, then Top up *)
TopUpMoney(amount) ==
    IF amount <= 0
    THEN /\ ret' = Outcome("validate", NoAmount, Null, Null, 0, FALSE)
         /\ UNCHANGED <<users, currentUserId, txStore, secrets, nextUserId, nextTxId, clock, given, calls>>
    ELSE CreateTransactionForCurrentUser("topup", amount, TopUpFee(amount))

NextScreens ==
    \/ \E s \in SignupParams : SignupUser(s.name, s.identifier, s.password) /\ UNCHANGED app
    \/ \E i \in Identifiers, p \in Passwords : LoginUser(i, p) /\ UNCHANGED app
    \/ Logout /\ UNCHANGED app
    \/ \E a \in ScreenAmounts : TopUpMoney(a) /\ UNCHANGED app
    \/ \E r \in BOOLEAN, a \in ScreenAmounts, m \in Methods : SendMoney(r, a, m) /\ UNCHANGED app

SpecScreens == Init /\ [][NextScreens]_vars

-----------------------------------------------------------------------------
(* The controller (AppContext): the reducer, and its actions run one at a
   time, each from its first dispatch to its last.  An action calls the
   engine, so it is the engine call together with the dispatches around it. *)

\* reducer, SET_LOADING
SetLoading(st, b) == [st EXCEPT !.loading = b]

\* reducer, SET_ERROR
SetError(st, message) == [st EXCEPT !.loading = FALSE, !.error = message]

\* reducer, LOGIN_SUCCESS
LoginSuccess(st, user, balance, txs) ==
    [st EXCEPT !.user = user, !.balance = balance, !.transactions = txs,
               !.loading = FALSE, !.error = Null]

\* reducer, INIT_START
InitStart(st) == [st EXCEPT !.loading = TRUE, !.error = Null]

\* reducer, INIT_SUCCESS
InitSuccess(st, user, balance, txs) ==
    [st EXCEPT !.initialized = TRUE, !.loading = FALSE, !.user = user,
               !.balance = balance, !.transactions = txs, !.error = Null]

\* mutant: the state is reset to initialState as it is
LogoutStateFresh == InitialState

\* reducer, LOGOUT
LogoutState == [InitialState EXCEPT !.initialized = TRUE]

\* mutant: the transaction is put at the end of the list
AddTransactionLast(st, tx) == [st EXCEPT !.transactions = Append(st.transactions, tx)]

\* reducer, ADD_TRANSACTION
AddTransaction(st, tx) == [st EXCEPT !.transactions = <<tx>> \o st.transactions]

\* reducer, REFRESH_BALANCE
RefreshBalance(st, n) == [st EXCEPT !.balance = Num(n)]

\* reducer, REFRESH_TRANSACTIONS
RefreshTransactions(st, txs) == [st EXCEPT !.transactions = txs]

EngineFrame ==
    UNCHANGED <<users, currentUserId, txStore, secrets, nextUserId, nextTxId, clock, given, calls>>

\* loadFromStorage(), run on mount, as a function of what it reads
Loaded(st, us, sessionId, store) ==
    LET user == CurrentUserOf(us, sessionId)
    IN IF user = Null
       THEN {InitSuccess(InitStart(st), Null, Null, <<>>)}
       ELSE {InitSuccess(InitStart(st), user, Num(BalanceForCurrentUser(us, sessionId)), txs) :
                txs \in SortResults(ReadTxs(store, user.id))}

\* the provider has mounted on an empty store and loadFromStorage has run
InitApp ==
    /\ users = <<>>
    /\ currentUserId = Absent
    /\ txStore = <<>>
    /\ secrets = <<>>
    /\ nextUserId = 1
    /\ nextTxId = 1
    /\ clock = 0
    /\ given = <<>>
    /\ calls = [c \in Calls |-> Idle]
    /\ app \in Loaded(InitialState, <<>>, Absent, <<>>)
    /\ ret = Outcome("init", NoError, Null, Null, 0, FALSE)

\* the dispatches of signup and login after the engine call has ended
AfterAuth(st) ==
    IF ret'.err # NoError
    THEN {SetError(SetLoading(st, TRUE), ret'.err)}
    ELSE {LoginSuccess(SetLoading(st, TRUE), ret'.user,
                       Num(BalanceForCurrentUser(users', currentUserId')), txs) :
             txs \in SortResults(ReadTxs(txStore', ret'.user.id))}

(* signup(opts) *)
AppSignup(s) ==
    /\ SignupUser(s.name, s.identifier, s.password)
    /\ app' \in AfterAuth(app)

(* login(opts) *)
AppLogin(identifier, password) ==
    /\ LoginUser(identifier, password)
    /\ app' \in AfterAuth(app)

(* logout() *)
AppLogout ==
    /\ Logout
    /\ app' = LogoutState

(* refresh() *)
AppRefresh ==
    /\ LET user == CurrentUserOf(users, currentUserId)
           st == SetLoading(app, TRUE)
       IN IF user = Null
          THEN app' = SetLoading(InitSuccess(st, Null, Null, <<>>), FALSE)
          ELSE \E txs \in SortResults(ReadTxs(txStore, user.id)) :
               LET bal == BalanceForCurrentUser(users, currentUserId)
               IN app' = SetLoading(
                            LoginSuccess(RefreshBalance(RefreshTransactions(st, txs), bal),
                                         user, Num(bal), txs),
                            FALSE)
    /\ ret' = Outcome("refresh", NoError, Null, Null, 0, FALSE)
    /\ EngineFrame

\* the dispatches of topUp and send after createTransactionForCurrentUser
\* has returned or thrown (the engine call is the step's change of ret)
AfterCreate(st) ==
    IF ret'.err # NoError
    THEN SetLoading(SetError(SetLoading(st, TRUE), ret'.err), FALSE)
    ELSE SetLoading(
            RefreshBalance(AddTransaction(SetLoading(st, TRUE), ret'.tx),
                           BalanceForCurrentUser(users', currentUserId')),
            FALSE)

\* what topUp and send are called with: topUp gives the type "topup"
AppParams == {Param("topup", 100000, NoFee), Param("send", 50000, 5000)}

(* topUp(opts), send(opts) *)
AppCreate(p) ==
    /\ CreateTransactionForCurrentUser(p.type, p.amount, p.fee)
    /\ app' = AfterCreate(app)

(* topUp(opts), send(opts) with AsyncStorage rejecting inside
   createTransactionForCurrentUser *)
AppCreateFails(p, point) ==
    /\ CreateTransactionFails(p.type, p.amount, p.fee, point)
    /\ app' = AfterCreate(app)

\* the calls the controller's actions are made with
AppSignups == {Signup("Ada", "ada@x.com", "secret1"), Signup("Bob", "bob@x.com", "secret1")}
AppLogins == {<<"ada@x.com", "secret1">>, <<"bob@x.com", "secret1">>, <<"bob@x.com", "secret2">>}
AppFailPoints == {AwaitWriteLog, AwaitWriteUsers}

NextApp ==
    \/ \E s \in AppSignups : AppSignup(s)
    \/ \E l \in AppLogins : AppLogin(l[1], l[2])
    \/ AppLogout
    \/ AppRefresh
    \/ \E p \in AppParams : AppCreate(p)
    \/ \E p \in AppParams, point \in AppFailPoints : AppCreateFails(p, point)

SpecApp == InitApp /\ [][NextApp]_vars

-----------------------------------------------------------------------------
(* The controller with a topUp or send and a refresh in flight at once.
   Both are async functions: each action below is one continuation of one
   of them, and the continuations of createTransactionForCurrentUser are
   those of the engine. *)

Sender == "first"        \* the topUp or send in flight
Refresher == "second"    \* the refresh in flight

\* a user has signed up through the controller and has not transacted
InitAppRace ==
    /\ users = <<NewUser(1, "Ada", "ada@x.com", 0)>>
    /\ currentUserId = 1
    /\ txStore = (1 :> <<>>)
    /\ secrets = (1 :> "secret1")
    /\ nextUserId = 2
    /\ nextTxId = 1
    /\ clock = 0
    /\ given = ("ada@x.com" :> "secret1")
    /\ calls = [c \in Calls |-> Idle]
    /\ app \in {LoginSuccess(SetLoading(st, TRUE), NewUser(1, "Ada", "ada@x.com", 0), Num(0), <<>>) :
                   st \in Loaded(InitialState, <<>>, Absent, <<>>)}
    /\ ret = Outcome("signupUser", NoError, NewUser(1, "Ada", "ada@x.com", 0), Null, 0, FALSE)

\* the submit button is pressed (it is disabled while state.loading):
\* SET_LOADING true is dispatched and createTransactionForCurrentUser called
AppCreateStart(p) ==
    /\ ~app.loading
    /\ TxCount < MaxTx
    /\ CallCreate(Sender, p)
    /\ app' = SetLoading(app, TRUE)

\* createTransactionForCurrentUser has returned: ADD_TRANSACTION is
\* dispatched and getBalanceForCurrentUser called
AppCreateReturned ==
    /\ calls[Sender].pc = "done"
    /\ "tx" \in DOMAIN calls[Sender]
    /\ app' = AddTransaction(app, calls[Sender].tx)
    /\ calls' = [calls EXCEPT ![Sender] = [pc |-> "app:getBalance", tx |-> calls[Sender].tx]]
    /\ UNCHANGED <<users, currentUserId, txStore, secrets, nextUserId, nextTxId, clock, given, ret>>

\* getBalanceForCurrentUser has returned: REFRESH_BALANCE and SET_LOADING
\* false are dispatched and the action returns
AppCreateDone ==
    /\ calls[Sender].pc = "app:getBalance"
    /\ app' = SetLoading(RefreshBalance(app, BalanceForCurrentUser(users, currentUserId)), FALSE)
    /\ calls' = [calls EXCEPT ![Sender] = Idle]
    /\ UNCHANGED <<users, currentUserId, txStore, secrets, nextUserId, nextTxId, clock, given, ret>>

\* refresh is called: SET_LOADING true is dispatched and getCurrentUser called
AppRefreshStart ==
    /\ calls[Refresher].pc = "idle"
    /\ app' = SetLoading(app, TRUE)
    /\ calls' = [calls EXCEPT ![Refresher] = [pc |-> "refresh:getCurrentUser"]]
    /\ UNCHANGED <<users, currentUserId, txStore, secrets, nextUserId, nextTxId, clock, given, ret>>

\* getCurrentUser has returned: with no user INIT_SUCCESS and SET_LOADING
\* false are dispatched, otherwise the two reads are started
AppRefreshUser ==
    /\ calls[Refresher].pc = "refresh:getCurrentUser"
    /\ LET user == CurrentUserOf(users, currentUserId)
       IN IF user = Null
          THEN /\ app' = SetLoading(InitSuccess(app, Null, Null, <<>>), FALSE)
               /\ calls' = [calls EXCEPT ![Refresher] = Idle]
          ELSE /\ calls' = [calls EXCEPT ![Refresher] = [pc |-> "refresh:reads", user |-> user]]
               /\ UNCHANGED app
    /\ UNCHANGED <<users, currentUserId, txStore, secrets, nextUserId, nextTxId, clock, given, ret>>

\* getTransactionsForUser and getBalanceForCurrentUser have read the store
\* (the two reads of Promise.all taken together)
AppRefreshReads ==
    /\ calls[Refresher].pc = "refresh:reads"
    /\ \E txs \in SortResults(ReadTxs(txStore, calls[Refresher].user.id)) :
          calls' = [calls EXCEPT ![Refresher] =
                       [pc |-> "refresh:dispatch", user |-> calls[Refresher].user, txs |-> txs,
                        bal |-> BalanceForCurrentUser(users, currentUserId)]]
    /\ UNCHANGED <<users, currentUserId, txStore, secrets, nextUserId, nextTxId, clock, given, ret, app>>

\* Promise.all has resolved: REFRESH_TRANSACTIONS, REFRESH_BALANCE,
\* LOGIN_SUCCESS and SET_LOADING false are dispatched and refresh returns
AppRefreshDispatch ==
    /\ calls[Refresher].pc = "refresh:dispatch"
    /\ LET r == calls[Refresher]
       IN app' = SetLoading(
                    LoginSuccess(RefreshBalance(RefreshTransactions(app, r.txs), r.bal),
                                 r.user, Num(r.bal), r.txs),
                    FALSE)
    /\ calls' = [calls EXCEPT ![Refresher] = Idle]
    /\ UNCHANGED <<users, currentUserId, txStore, secrets, nextUserId, nextTxId, clock, given, ret>>

NextAppRace ==
    \/ \E p \in AppParams : AppCreateStart(p)
    \/ ReadSession(Sender) /\ UNCHANGED app
    \/ ReadUser(Sender) /\ UNCHANGED app
    \/ ReadLog(Sender) /\ UNCHANGED app
    \/ WriteLog(Sender) /\ UNCHANGED app
    \/ RereadUsers(Sender) /\ UNCHANGED app
    \/ WriteUsers(Sender) /\ UNCHANGED app
    \/ AppCreateReturned
    \/ AppCreateDone
    \/ AppRefreshStart
    \/ AppRefreshUser
    \/ AppRefreshReads
    \/ AppRefreshDispatch

SpecAppRace == InitAppRace /\ [][NextAppRace]_vars

-----------------------------------------------------------------------------
(* Properties of the engine under sequentially issued calls (Spec) *)

Registered(identifier) == \E k \in 1..Len(users) : users[k].identifier = identifier

UserOfIdentifier(identifier) ==
    users[CHOOSE k \in 1..Len(users) : users[k].identifier = identifier]

Range(s) == {s[i] : i \in 1..Len(s)}

Created == ret'.op = "createTransactionForCurrentUser" /\ ret'.err = NoError

\* the signed change a transaction is to make to its owner's balance
NetEffect(tx) ==
    IF tx.type = "send" THEN -(tx.amount + tx.fee) ELSE tx.amount - tx.fee

\* the net effects of a log (newest first) applied oldest first, starting from 0
RECURSIVE FoldNet(_)
FoldNet(log) == IF log = <<>> THEN 0 ELSE FoldNet(Tail(log)) + NetEffect(Head(log))

\* C1: the persisted balance of every user equals the fold, from 0 and in the
\* order the calls completed, of the net effects of the transactions in that
\* user's log (-(amount + fee) for send, amount - fee for receive, topup, refund).
C1_BalanceFold ==
    \A k \in 1..Len(users) :
        users[k].balance = FoldNet(ReadTxs(txStore, users[k].id))

\* C2: a successful createTransactionForCurrentUser returns a completed
\* transaction of the session user; for send its total is amount + fee and the
\* balance becomes oldBalance - total, for receive, topup and refund its total
\* is amount - fee and the balance becomes oldBalance + amount - fee.
C2_BalanceUpdateRule ==
    [][\A p \in TxParams :
        (Created /\ CreateTransactionForCurrentUser(p.type, p.amount, p.fee)) =>
            LET tx == ret'.tx
                old == CurrentUserOf(users, currentUserId).balance
                new == CurrentUserOf(users', currentUserId).balance
            IN /\ tx.status = "completed"
               /\ tx.userId = currentUserId
               /\ p.type = "send" => (tx.total = p.amount + tx.fee /\ new = old - tx.total)
               /\ p.type # "send" => (tx.total = p.amount - tx.fee
                                        /\ new = old + p.amount - tx.fee)]_vars

\* C3: no two User records of the registry share an identifier.
C3_IdentifierUnique ==
    \A j, k \in 1..Len(users) :
        j # k => users[j].identifier # users[k].identifier

C3_Witness ==
    /\ Len(users) = 2
    /\ ret.op = "signupUser"
    /\ ret.err = DuplicateIdentifier

\* C4: a signup with an identifier that is already registered fails with
\* DuplicateIdentifier and changes neither the registry, the secrets, the
\* Session pointer nor any transaction log.
C4_DuplicateSignupFails ==
    [][\A s \in SignupParams :
        (/\ ret'.op = "signupUser"
         /\ Registered(s.identifier)
         /\ SignupUser(s.name, s.identifier, s.password)) =>
            /\ ret'.op = "signupUser"
            /\ ret'.err = DuplicateIdentifier
            /\ UNCHANGED <<users, secrets, currentUserId, txStore>>]_vars

C4_Witness ==
    /\ ret.op = "signupUser"
    /\ ret.err = DuplicateIdentifier
    /\ currentUserId # Absent
    /\ TxCount > 0

C6_RightPasswordAccepted ==
    [][\A i \in Identifiers, p \in Passwords :
        (ret'.op = "loginUser" /\ i \in DOMAIN given /\ given[i] = p /\ LoginUser(i, p)) =>
            /\ Registered(i)
            /\ ret'.op = "loginUser"
            /\ ret'.err = NoError
            /\ currentUserId' = UserOfIdentifier(i).id
            /\ ret'.user = UserOfIdentifier(i)]_vars

\* a login that succeeded for the user registered first, after a second signup
C6_Witness ==
    /\ ret.op = "loginUser"
    /\ ret.err = NoError
    /\ Len(users) = 2
    /\ currentUserId = users[1].id
    /\ ret.user = users[1]

\* C7: a login with an identifier that is not registered fails with
\* UserNotFound, an error other than InvalidCredentials, does not read the
\* Secret Store and leaves the Session pointer and the registry unchanged.
C7_UnknownIdentifier ==
    [][\A i \in Identifiers, p \in Passwords :
        (ret'.op = "loginUser" /\ ~Registered(i) /\ LoginUser(i, p)) =>
            /\ ret'.op = "loginUser"
            /\ ret'.err = UserNotFound
            /\ ret'.err # InvalidCredentials
            /\ ~ret'.readSecret
            /\ UNCHANGED <<currentUserId, users>>]_vars

C7_Witness ==
    /\ ret.op = "loginUser"
    /\ ret.err = UserNotFound
    /\ Len(users) = 1
    /\ currentUserId # Absent

\* C8: createTransactionForCurrentUser with no active session fails with
\* NoActiveSession and changes neither the registry, a balance, a
\* transaction log nor the Session pointer.
C8_NoSessionNoMutation ==
    [][\A p \in TxParams :
        (/\ ret'.op = "createTransactionForCurrentUser"
         /\ currentUserId = Absent
         /\ CreateTransactionForCurrentUser(p.type, p.amount, p.fee)) =>
            /\ ret'.op = "createTransactionForCurrentUser"
            /\ ret'.err = NoActiveSession
            /\ UNCHANGED <<users, txStore, currentUserId, secrets>>]_vars

\* the call failed after users had registered and transacted
C8_Witness ==
    /\ ret.op = "createTransactionForCurrentUser"
    /\ ret.err = NoActiveSession
    /\ currentUserId = Absent
    /\ Len(users) > 0
    /\ TxCount > 0

\* C9: getBalanceForCurrentUser does not fail; it returns 0 when there is no
\* active session and otherwise the persisted balance of the user the
\* Session pointer names.
C9_BalanceOfSessionUser ==
    [][(ret'.op = "getBalanceForCurrentUser" /\ GetBalanceForCurrentUser) =>
        /\ ret'.op = "getBalanceForCurrentUser"
        /\ ret'.err = NoError
        /\ currentUserId = Absent => ret'.num = 0
        /\ currentUserId # Absent =>
              \E k \in 1..Len(users) :
                  users[k].id = currentUserId /\ ret'.num = users[k].balance]_vars

\* the balance returned is that of the second user, logged in while the
\* first user holds another balance
C9_Witness ==
    /\ ret.op = "getBalanceForCurrentUser"
    /\ Len(users) = 2
    /\ currentUserId = users[2].id
    /\ ret.num = users[2].balance
    /\ users[1].balance # 0
    /\ users[1].balance # users[2].balance

\* C10: a call without a fee stores the fee max(10, amount * 0.015 rounded to
\* 2 decimal places), so that a topup of 100 stores the fee 10 and raises the
\* balance by 90; a call with a fee, 0 included, stores the fee supplied.
C10_FeeDefault ==
    [][\A p \in TxParams :
        (Created /\ CreateTransactionForCurrentUser(p.type, p.amount, p.fee)) =>
            LET tx == ret'.tx
                old == CurrentUserOf(users, currentUserId).balance
                new == CurrentUserOf(users', currentUserId).balance
                \* amount * 0.015 to the nearest hundredth, in thousandths
                rounded == ((15 * p.amount + 5000) \div 10000) * 10
            IN /\ p.fee # NoFee => tx.fee = p.fee
               /\ p.fee = NoFee => tx.fee = (IF rounded > 10000 THEN rounded ELSE 10000)
               /\ (p.type = "topup" /\ p.amount = 100000 /\ p.fee = NoFee) =>
                     (tx.fee = 10000 /\ new = old + 90000)]_vars

\* a topup of 100 without a fee was stored with the fee 10 after a call with
\* the fee 0 supplied
C10_Witness ==
    /\ ret.op = "createTransactionForCurrentUser"
    /\ ret.err = NoError
    /\ ret.tx.type = "topup"
    /\ ret.tx.amount = 100000
    /\ ret.tx.fee = 10000
    /\ \E t \in Range(ReadTxs(txStore, currentUserId)) : t.fee = 0

\* C11: with an active session a send succeeds whatever the balance is; right
\* after signup (balance 0) a send of 50 with fee 5 returns a transaction of
\* total 55 and the balance becomes -55.
C11_NoOverdraftCheck ==
    [][\A p \in TxParams :
        (/\ ret'.op = "createTransactionForCurrentUser"
         /\ p.type = "send"
         /\ currentUserId # Absent
         /\ CreateTransactionForCurrentUser(p.type, p.amount, p.fee)) =>
            LET tx == ret'.tx
                old == CurrentUserOf(users, currentUserId).balance
                new == CurrentUserOf(users', currentUserId).balance
            IN /\ ret'.err = NoError
               /\ tx.type = "send"
               /\ tx.total = p.amount + tx.fee
               /\ (p.amount = 50000 /\ p.fee = 5000) =>
                     (tx.total = 55000 /\ new = old - 55000)
               /\ (p.amount = 50000 /\ p.fee = 5000 /\ old = 0) => new = -55000]_vars

\* the send of 50 with fee 5 was the first transaction of a user
C11_Witness ==
    /\ ret.op = "createTransactionForCurrentUser"
    /\ ret.err = NoError
    /\ ret.tx.type = "send"
    /\ ret.tx.total = 55000
    /\ Len(ReadTxs(txStore, currentUserId)) = 1
    /\ CurrentUserOf(users, currentUserId).balance = -55000

\* C12: logout clears the Session pointer and changes nothing else, also with
\* no active session; right after it getCurrentUser returns none and
\* getBalanceForCurrentUser returns 0.
C12_LogoutClearsSession ==
    [][/\ (ret'.op = "logout" /\ Logout) =>
            /\ ret'.err = NoError
            /\ currentUserId' = Absent
            /\ UNCHANGED <<users, txStore, secrets>>
       /\ (ret.op = "logout" /\ ret'.op = "getCurrentUser" /\ GetCurrentUser) =>
            ret'.user = Null
       /\ (ret.op = "logout" /\ ret'.op = "getBalanceForCurrentUser"
             /\ GetBalanceForCurrentUser) =>
            (ret'.err = NoError /\ ret'.num = 0)]_vars

\* 0 was returned with no session although a user holds a balance
C12_Witness ==
    /\ ret.op = "getBalanceForCurrentUser"
    /\ ret.num = 0
    /\ currentUserId = Absent
    /\ \E k \in 1..Len(users) : users[k].balance # 0

\* C13: a signup with a fresh identifier adds exactly one User, with balance
\* 0 and the name and identifier given, stores the password as its secret,
\* points the Session at it, creates its empty log and leaves the records,
\* secrets and logs of the users registered before as they were.
C13_SignupEffect ==
    [][\A s \in SignupParams :
        (/\ ret'.op = "signupUser"
         /\ ~Registered(s.identifier)
         /\ SignupUser(s.name, s.identifier, s.password)) =>
            /\ ret'.err = NoError
            /\ Len(users') = Len(users) + 1
            /\ SubSeq(users', 1, Len(users)) = users
            /\ LET u == users'[Len(users')]
               IN /\ u.balance = 0
                  /\ u.name = s.name
                  /\ u.identifier = s.identifier
                  /\ \A k \in 1..Len(users) : users[k].id # u.id
                  /\ ret'.user = u
                  /\ currentUserId' = u.id
                  /\ DOMAIN secrets' = DOMAIN secrets \cup {u.id}
                  /\ secrets'[u.id] = s.password
                  /\ DOMAIN txStore' = DOMAIN txStore \cup {u.id}
                  /\ txStore'[u.id] = <<>>
            /\ \A id \in DOMAIN secrets : secrets'[id] = secrets[id]
            /\ \A id \in DOMAIN txStore : txStore'[id] = txStore[id]]_vars

\* the second user signed up after the first had transacted
C13_Witness ==
    /\ ret.op = "signupUser"
    /\ ret.err = NoError
    /\ Len(users) = 2
    /\ currentUserId = users[2].id
    /\ ReadTxs(txStore, users[1].id) # <<>>
    /\ ReadTxs(txStore, users[2].id) = <<>>

StrictlyNewestFirst(txs) ==
    \A i \in 1..(Len(txs) - 1) : txs[i].createdAt > txs[i + 1].createdAt

\* C14: for a user whose transactions were created at strictly increasing
\* timestamps, getTransactionsForUser returns exactly those transactions,
\* none missing and none twice, newest first, and changes no persisted state.
C14_NewestFirst ==
    [][\A id \in UserIdArgs :
        (/\ ret'.op = "getTransactionsForUser"
         /\ StrictlyNewestFirst(ReadTxs(txStore, id))
         /\ GetTransactionsForUser(id)) =>
            /\ ret'.err = NoError
            /\ Len(ret'.list) = Len(ReadTxs(txStore, id))
            /\ Range(ret'.list) = Range(ReadTxs(txStore, id))
            /\ StrictlyNewestFirst(ret'.list)
            /\ UNCHANGED <<users, currentUserId, txStore, secrets>>]_vars

\* two transactions of different timestamps were returned
C14_Witness ==
    /\ ret.op = "getTransactionsForUser"
    /\ Len(ret.list) = 2
    /\ ret.list[1].createdAt > ret.list[2].createdAt
    /\ ret.list[1].id > ret.list[2].id

C16_BalanceFrame ==
    [][ret'.op \in {"signupUser", "loginUser", "logout", "getCurrentUser",
                    "getTransactionsForUser", "getBalanceForCurrentUser"} =>
        \A k \in 1..Len(users) :
            /\ k <= Len(users')
            /\ users'[k].id = users[k].id
            /\ users'[k].balance = users[k].balance]_vars

\* another user signed up while the first holds a balance
C16_Witness ==
    /\ ret.op = "signupUser"
    /\ ret.err = NoError
    /\ Len(users) = 2
    /\ users[1].balance # 0

\* C17: the Session pointer is unset or the id of a registered user, and
\* getCurrentUser returns none only when it is unset and otherwise the
\* registry record of that id.
C17_NoDanglingSession ==
    /\ currentUserId # Absent => \E k \in 1..Len(users) : users[k].id = currentUserId
    /\ ret.op = "getCurrentUser" =>
          /\ ret.user = Null <=> currentUserId = Absent
          /\ currentUserId # Absent =>
                \E k \in 1..Len(users) :
                    users[k].id = currentUserId /\ ret.user = users[k]

\* the record of the first user was returned after a login back to it
C17_Witness ==
    /\ ret.op = "getCurrentUser"
    /\ Len(users) = 2
    /\ currentUserId = users[1].id
    /\ ret.user = users[1]
    /\ users[1].balance # 0

-----------------------------------------------------------------------------
(* Properties under storage failures (SpecFail) *)

\* C18: a storage failure during createTransactionForCurrentUser reaches the
\* caller as the storage error, with no retry and no rollback: when the
\* failing await is the log write or an earlier one nothing persisted has
\* changed; when it comes after the log write, the log holds the new
\* transaction at its head while the registry, and so the balance, is as before.
C18_FailureLeavesLastWritten ==
    [][\A p \in FailParams, point \in AwaitSession..AwaitWriteUsers :
        (/\ ret'.op = "createTransactionForCurrentUser"
         /\ ret'.err = StorageError
         /\ CreateTransactionFails(p.type, p.amount, p.fee, point)) =>
            /\ ret'.tx = Null
            /\ UNCHANGED <<users, currentUserId, secrets>>
            /\ point <= AwaitWriteLog => UNCHANGED txStore
            /\ point > AwaitWriteLog =>
                  /\ DOMAIN txStore' = DOMAIN txStore
                  /\ \A id \in DOMAIN txStore :
                        id # currentUserId => txStore'[id] = txStore[id]
                  /\ Len(txStore'[currentUserId]) = Len(txStore[currentUserId]) + 1
                  /\ Tail(txStore'[currentUserId]) = txStore[currentUserId]
                  /\ LET tx == Head(txStore'[currentUserId])
                     IN /\ tx.type = p.type
                        /\ tx.amount = p.amount
                        /\ tx.userId = currentUserId]_vars

\* the registry write failed for a first top-up: it is logged, the balance is 0
C18_Witness ==
    /\ ret.op = "createTransactionForCurrentUser"
    /\ ret.err = StorageError
    /\ currentUserId # Absent
    /\ Len(ReadTxs(txStore, currentUserId)) = 1
    /\ txStore[currentUserId][1].type = "topup"
    /\ CurrentUserOf(users, currentUserId).balance = 0

-----------------------------------------------------------------------------
(* Properties under overlapping calls (SpecRace) *)

\* the call ran to its return
Completed(c) == calls[c].pc = "done" /\ "tx" \in DOMAIN calls[c]

BothCompleted == \A c \in Calls : Completed(c)

\* C19: when two overlapping calls have read the same oldBalance and both
\* have completed, the balance is the newBalance one of them computed from
\* that oldBalance, and not the balance both transactions together give:
\* the later registry write replaced the earlier.
C19_LostUpdate ==
    (/\ BothCompleted
     /\ calls["first"].user.balance = calls["second"].user.balance) =>
        LET old == calls["first"].user.balance
            t1 == calls["first"].tx
            t2 == calls["second"].tx
            balance == CurrentUserOf(users, t1.userId).balance
        IN /\ \E t \in {t1, t2} : balance = NewBalanceOf(old, t.type, t.amount, t.fee)
           /\ balance # NewBalanceOf(NewBalanceOf(old, t1.type, t1.amount, t1.fee),
                                     t2.type, t2.amount, t2.fee)

\* a top-up and a send overlapped, both are logged, the balance is that of
\* the top-up alone
C19_Witness ==
    /\ BothCompleted
    /\ calls["first"].user.balance = calls["second"].user.balance
    /\ calls["first"].tx.type = "topup"
    /\ calls["second"].tx.type = "send"
    /\ Len(txStore[1]) = 2
    /\ users[1].balance = 90000

\* C20: after two overlapping calls have completed, the transactions of both
\* are in the user's persisted log.
C20_BothRecordsLogged ==
    BothCompleted =>
        \A c \in Calls : calls[c].tx \in Range(ReadTxs(txStore, calls[c].tx.userId))

-----------------------------------------------------------------------------
(* Further properties under sequentially issued calls (Spec) *)

\* C23: createTransactionForCurrentUser changes only the balance of the
\* current user's record and the current user's log: the other records and
\* logs, the secrets and the Session pointer are as before, and so are the
\* id, name, identifier and createdAt of the current user.
C23_CreateFrame ==
    [][ret'.op = "createTransactionForCurrentUser" =>
        /\ currentUserId' = currentUserId
        /\ secrets' = secrets
        /\ Len(users') = Len(users)
        /\ \A k \in 1..Len(users) :
              /\ users[k].id # currentUserId => users'[k] = users[k]
              /\ users'[k] = [users[k] EXCEPT !.balance = users'[k].balance]
        /\ DOMAIN txStore' = DOMAIN txStore
        /\ \A id \in DOMAIN txStore :
              id # currentUserId => txStore'[id] = txStore[id]]_vars

\* the second user transacted while the first holds a balance and a log
C23_Witness ==
    /\ ret.op = "createTransactionForCurrentUser"
    /\ ret.err = NoError
    /\ Len(users) = 2
    /\ ret.tx.userId = users[2].id
    /\ users[2].balance # 0
    /\ users[1].balance # 0
    /\ Len(ReadTxs(txStore, users[1].id)) = 1

\* C25: for every transaction created, the balance change is the stored
\* total with the sign of the type: -total for send, +total for receive,
\* topup and refund (so a credit whose fee exceeds its amount lowers the balance).
C25_BalanceChangeIsTotal ==
    [][Created =>
        LET tx == ret'.tx
            change == CurrentUserOf(users', tx.userId).balance
                        - CurrentUserOf(users, tx.userId).balance
        IN IF tx.type = "send" THEN change = -tx.total ELSE change = tx.total]_vars

-----------------------------------------------------------------------------
(* Properties under session switches during a call (SpecSwitch) *)

\* C24: every transaction in the log keyed by a user has that user's id as
\* userId, and the registry write of a call puts the call's newBalance,
\* computed from the user read at its start, into the record of that same
\* user, also when a logout or a login as another user completed meanwhile.
C24_LogAndBalanceOfSameUser ==
    [][/\ \A id \in DOMAIN txStore' :
             \A t \in Range(txStore'[id]) : t.userId = id
       /\ \A c \in Calls :
             (calls[c].pc = "writeUsers" /\ calls'[c].pc = "done") =>
                LET call == calls[c]
                IN /\ call.tx.userId = call.user.id
                   /\ CurrentUserOf(users', call.user.id).balance = call.newBalance
                   /\ call.newBalance = NewBalanceOf(call.user.balance, call.tx.type,
                                                     call.tx.amount, call.tx.fee)]_vars

\* a call started by the first user returned after a login as the second:
\* its transaction is in the first user's log, its balance in the first's record
C24_Witness ==
    \E c \in Calls :
        /\ Completed(c)
        /\ ret.op = "createTransactionForCurrentUser"
        /\ ret.tx = calls[c].tx
        /\ currentUserId = 2
        /\ calls[c].tx.userId = 1
        /\ calls[c].tx \in Range(txStore[1])
        /\ users[1].balance = calls[c].newBalance
        /\ txStore[2] = <<>>
        /\ users[2].balance = 0

-----------------------------------------------------------------------------
(* Properties of signupUser under failures and overlap (SpecSignup) *)

\* no call is between two of its awaits
Quiescent == \A c \in Calls : calls[c].pc \in {"idle", "done"}

\* C22: whenever no signup is in flight, also after a signup that failed
\* part-way, every user in the registry has a stored secret and a log.
C22_RegisteredHaveSecretAndLog ==
    Quiescent =>
        \A k \in 1..Len(users) :
            users[k].id \in DOMAIN secrets /\ users[k].id \in DOMAIN txStore

\* C26: a user returned by a signup is in the registry from then on, also
\* when two signups overlapped, and once they have ended the Session pointer
\* names a user of the registry.
C26_SignedUpStaysRegistered ==
    /\ \A c \in Calls :
          (calls[c].pc = "done" /\ "user" \in DOMAIN calls[c]) =>
              calls[c].user \in Range(users)
    /\ (Quiescent /\ currentUserId # Absent) =>
          \E k \in 1..Len(users) : users[k].id = currentUserId

-----------------------------------------------------------------------------
(* Properties of the screens (SpecScreens) *)

\* C29: with sends submitted through the Send Money screen, whichever
\* payment method is selected, no persisted balance becomes negative.
C29_BalanceNeverNegative ==
    \A k \in 1..Len(users) : users[k].balance >= 0

-----------------------------------------------------------------------------
(* Properties of the controller, its actions one at a time (SpecApp) *)

ControllerCreated ==
    ret'.op = "createTransactionForCurrentUser" /\ ret'.err = NoError

NewestFirst(txs) ==
    \A i \in 1..(Len(txs) - 1) : txs[i].createdAt >= txs[i + 1].createdAt

\* the list holds exactly the transactions of the log, newest first
Mirrors(txs, log) ==
    Len(txs) = Len(log) /\ Range(txs) = Range(log) /\ NewestFirst(txs)

C30_FailureKeepsState ==
    [][/\ (ret'.op = "createTransactionForCurrentUser" /\ ret'.err # NoError) =>
             /\ app'.user = app.user
             /\ app'.balance = app.balance
             /\ app'.transactions = app.transactions
             /\ app'.error = ret'.err
             /\ app'.loading = FALSE
       /\ ret'.op = "logout" =>
             /\ app'.user = Null
             /\ app'.balance = Null
             /\ app'.transactions = <<>>
             /\ app'.initialized = TRUE
             /\ app'.loading = FALSE]_vars

\* a top-up failed at the registry write: the log has it, the state has not
C30_Witness ==
    /\ ret.op = "createTransactionForCurrentUser"
    /\ ret.err = StorageError
    /\ app.error = StorageError
    /\ app.user # Null
    /\ app.loading = FALSE
    /\ Len(app.transactions) = 1
    /\ Len(ReadTxs(txStore, currentUserId)) = 2

-----------------------------------------------------------------------------
(* Properties of the controller with overlapping actions (SpecAppRace) *)

\* C27: state.transactions never holds two entries with the same id, in any
\* interleaving of a topUp or send with a refresh.
C27_NoDuplicateIds ==
    \A i, j \in 1..Len(app.transactions) :
        i # j => app.transactions[i].id # app.transactions[j].id

\* C28: while a topUp or send is in flight state.loading is true, also when
\* a refresh overlaps it, and when no action is in flight it is false.
C28_LoadingCoversAction ==
    /\ calls[Sender].pc # "idle" => app.loading
    /\ (\A c \in Calls : calls[c].pc = "idle") => ~app.loading

====
